---- MODULE Spec2Model ----
(***************************************************************************)
(* Akari, a DNS enumerator (src/akari.py).                                 *)
(*                                                                         *)
(* main() submits one perform_dns_lookup_with_retry task per               *)
(* (domain, record_type) pair to a thread pool, merges what the tasks      *)
(* return in the order as_completed yields them, and prints or saves the   *)
(* merged lines.                                                           *)
(*                                                                         *)
(* A string the program builds is modelled as the sequence of the pieces   *)
(* it is formatted from (a "line" is a sequence of tokens), so that what a *)
(* line contains (a domain, a record type, a colour escape) can be asked.  *)
(* The DNS resolver, the geolocation service and the terminal are the      *)
(* program's environment; their behaviour is fixed in the initial state    *)
(* (variable world) and is deterministic per pair and per invocation.      *)
(***************************************************************************)
EXTENDS Integers, Sequences, FiniteSets, TLC

VARIABLES
    domains,          \* main: domains
    record_types,     \* main: record_types
    args,             \* main: args (threads, ipinfo_token, verbose)
    world,            \* the environment: resolver, geolocation service, terminal
    mainpc,           \* position of main()
    submitted,        \* number of executor.submit calls made so far
    work_queue,       \* ThreadPoolExecutor: submitted work items no worker took yet
    future,           \* per task: state of its future and of the retry loop
    frame,            \* per task: the running perform_dns_lookup call (where it is, its locals)
    resolve_calls,    \* per task: invocations of resolver.resolve
    geo_calls,        \* per task: invocations of get_ipinfo_data
    ip_geolocations,  \* per task: what its last get_ipinfo_data call returned
    completed,        \* task numbers in the order the futures finished
    finished,         \* as_completed: futures found finished when it was called
    finished_futures, \* as_completed: waiter.finished_futures
    contributions,    \* per future as_completed yielded, in order: what main added for it
    results,          \* main: results
    console,          \* the lines printed after the banner
    written           \* the file save_results wrote

vars == <<domains, record_types, args, world, mainpc, submitted, work_queue,
          future, frame, resolve_calls, geo_calls, ip_geolocations, completed,
          finished, finished_futures, contributions, results, console, written>>

(***************************************************************************)
(* Bounds of the model.                                                    *)
(***************************************************************************)
MaxTasks == 2        \* Len(domains) * Len(record_types) of a batch
MaxThreads == 2      \* --threads
MaxRecords == 2      \* records one resolve call returns
MaxFailFirst == 2    \* failing resolve calls before the resolver answers

(***************************************************************************)
(* Program constants.                                                      *)
(***************************************************************************)
stop_max_attempt_number == 3

\* The second name has a character outside ASCII (written here as its escape).
DomainNames == <<"example.com", "ex\\u00e4mple.com", "example.net", "example.edu">>
NonAscii == {"ex\\u00e4mple.com"}
\* Of such a name: the number of its characters, the index of the character
\* ascii cannot encode, that character as repr shows it (a backslash, x and
\* two digits), and how json.dump writes the name and that repr.
NonAsciiChar ==
    [name \in NonAscii |->
        [len |-> 11, index |-> 2, char |-> "\\xe4",
         json_name |-> "ex\\u00e4mple.com", json_char |-> "\\\\xe4"]]
Stdouts == {"utf-8", "ascii", "closed"}
TypeNames == <<"A", "MX", "TXT", "NS">>
Rdatas == {"93.184.216.34", "93.184.216.35"}
Tokens == {"", "tok"}
Formats == {"txt", "json", "csv"}
Classified == {"NoAnswer", "NXDOMAIN", "Timeout", "YXDOMAIN", "NoNameservers"}
ExceptionKinds == Classified \cup {"Exception"}
GeoKeys == <<"City", "Region", "Country", "Org", "Postal", "Timezone", "Location">>

Range(s) == {s[k] : k \in DOMAIN s}

SeqsUpTo(S, n) == UNION {[1..k -> S] : k \in 0..n}

RECURSIVE Flatten(_)
Flatten(ss) == IF ss = <<>> THEN <<>> ELSE Head(ss) \o Flatten(Tail(ss))

(***************************************************************************)
(* termcolor.colored: wraps the text in the colour's escape sequence and   *)
(* the reset sequence. Whether termcolor emits escapes at all depends on   *)
(* its version and on the terminal (world.colour).                         *)
(***************************************************************************)
EscapeCodes == {"ESC[34m", "ESC[32m", "ESC[33m", "ESC[31m", "ESC[0m"}

Escape(color) ==
    CASE color = "blue" -> "ESC[34m"
      [] color = "green" -> "ESC[32m"
      [] color = "yellow" -> "ESC[33m"
      [] color = "red" -> "ESC[31m"

colored(text, color) ==
    IF world.colour THEN <<Escape(color)>> \o text \o <<"ESC[0m">> ELSE text

HasMarkup(line) == \E k \in DOMAIN line : line[k] \in EscapeCodes

(***************************************************************************)
(* The pairs of a batch, in the order main submits them: domains outer,    *)
(* record types inner.                                                     *)
(***************************************************************************)
NumTasks == Len(domains) * Len(record_types)

Tasks == 1..NumTasks

PairOf(i) ==
    <<domains[((i - 1) \div Len(record_types)) + 1],
      record_types[((i - 1) % Len(record_types)) + 1]>>

(***************************************************************************)
(* The environment.  world.resolver[p] says, for pair p, how many of the   *)
(* first Resolver() constructions raise (setup), whether resolve raises    *)
(* on every call or on the first failFirst calls (and what), and what it   *)
(* answers otherwise.  world.geoFail is the set of addresses for which     *)
(* handler.getDetails raises.  world.stdout is the standard output main    *)
(* prints to: one that encodes every character, one whose encoding is      *)
(* ascii, or an unbuffered pipe whose reader has gone.                     *)
(***************************************************************************)
ResolverRaises(p, call) ==
    LET b == world.resolver[p]
    IN  b.always \/ call <= b.failFirst

ExcMessage(kind) == <<"<", kind, ">">>

SetupMessage == <<"Resolver configuration could not be read or specified no nameservers.">>

GeoMessage == <<"<geolocation service failure>">>

(***************************************************************************)
(* get_ipinfo_data.  A dict is modelled as the sequence of its entries in  *)
(* insertion order; assigning to a key that is present replaces its value  *)
(* in place.                                                               *)
(***************************************************************************)
DictSet(d, key, value) ==
    IF \E k \in DOMAIN d : d[k].key = key
    THEN [k \in DOMAIN d |->
            IF d[k].key = key THEN [key |-> key, value |-> value] ELSE d[k]]
    ELSE Append(d, [key |-> key, value |-> value])

DictKeys(d) == {d[k].key : k \in DOMAIN d}

DictGet(d, key) == d[CHOOSE k \in DOMAIN d : d[k].key = key].value

GeoDetails(ip) ==
    [k \in DOMAIN GeoKeys |->
        [key |-> GeoKeys[k], value |-> <<"<", GeoKeys[k], " of ", ip, ">">>]]

GeoError ==
    <<[key |-> "Error",
       value |-> <<"Could not retrieve geolocation data: ">> \o GeoMessage]>>

\* One iteration of the loop over ips: the request for the first address
\* left, and the addresses and the mapping after it.
get_ipinfo_iteration_abort(ips, geo) ==
    IF Head(ips) \in world.geoFail
    THEN [ips |-> <<>>, geo |-> DictSet(geo, Head(ips), GeoError)]
    ELSE [ips |-> Tail(ips), geo |-> DictSet(geo, Head(ips), GeoDetails(Head(ips)))]

get_ipinfo_iteration(ips, geo) ==
    LET ip == Head(ips)
        entry == IF ip \in world.geoFail THEN GeoError ELSE GeoDetails(ip)
    IN  [ips |-> Tail(ips), geo |-> DictSet(geo, ip, entry)]

RECURSIVE get_ipinfo_loop(_, _)
get_ipinfo_loop(ips, geo) ==
    IF ips = <<>> THEN geo
    ELSE LET after == get_ipinfo_iteration(ips, geo)
         IN  get_ipinfo_loop(after.ips, after.geo)

get_ipinfo_data(ips, token) == get_ipinfo_loop(ips, <<>>)

(***************************************************************************)
(* perform_dns_lookup as a function (the actions below run it request by   *)
(* request).  attempt is the number of this invocation for the pair and    *)
(* call the number of the resolve invocation it would make; both only      *)
(* select the environment's response.  The value is what the invocation    *)
(* did: whether an exception left it (only the Resolver set-up of lines    *)
(* 22-28 is outside the try), the list it returned, and how often it       *)
(* invoked resolve and get_ipinfo_data.                                    *)
(***************************************************************************)
FailureLine(kind, domain, record_type) ==
    CASE kind = "NoAnswer" ->
            colored(<<"No ", record_type, " records found for ", domain, ".">>, "yellow")
      [] kind = "NXDOMAIN" ->
            colored(<<"The domain ", domain, " does not exist.">>, "red")
      [] kind = "Timeout" ->
            colored(<<"Timeout while resolving ", domain, " for ", record_type, " records.">>, "red")
      [] kind = "YXDOMAIN" ->
            colored(<<"Too many questions in the DNS query for ", domain, ".">>, "red")
      [] kind = "NoNameservers" ->
            colored(<<"No nameservers available to resolve ", domain, ".">>, "red")
      [] OTHER ->
            colored(<<"An error occurred: ">> \o ExcMessage(kind), "red")

HeaderLine(domain, record_type) ==
    colored(<<record_type>>, "blue") \o <<" records for ">>
        \o colored(<<domain>>, "green") \o <<":">>

GeoBlock(entry) ==
    <<<<"IP Geolocation for ", entry.key, ":">>>>
        \o [k \in DOMAIN entry.value |->
                <<"    ", entry.value[k].key, ": ">> \o entry.value[k].value]

GeoLines(geo) == Flatten([k \in DOMAIN geo |-> GeoBlock(geo[k])])

caught(kind, domain, record_type) == <<FailureLine(kind, domain, record_type)>>

RecordLines_reversed(answers) ==
    [k \in DOMAIN answers |-> <<answers[Len(answers) + 1 - k]>>]

RecordLines(answers) == [k \in DOMAIN answers |-> <<answers[k]>>]

WantsGeolocation_anytype(record_type, ipinfo_token) == ipinfo_token # ""

WantsGeolocation(record_type, ipinfo_token) ==
    record_type = "A" /\ ipinfo_token # ""

perform_dns_lookup(domain, record_type, ipinfo_token, attempt, call) ==
    LET p == <<domain, record_type>>
        b == world.resolver[p]
    IN  IF attempt <= b.setup
        THEN [raised |-> TRUE, exc |-> SetupMessage, result |-> <<>>,
              resolved |-> 0, geo |-> 0, ip_geolocations |-> <<>>]
        ELSE IF ResolverRaises(p, call)
        THEN [raised |-> FALSE, exc |-> <<>>,
              result |-> caught(b.kind, domain, record_type),
              resolved |-> 1, geo |-> 0, ip_geolocations |-> <<>>]
        ELSE LET answers == b.answers
                 records == RecordLines(answers)
                 ips == IF WantsGeolocation(record_type, ipinfo_token)
                        THEN answers ELSE <<>>
                 callGeo == ips # <<>> /\ ipinfo_token # ""
                 geo == IF callGeo THEN get_ipinfo_data(ips, ipinfo_token) ELSE <<>>
             IN  [raised |-> FALSE, exc |-> <<>>,
                  result |-> <<HeaderLine(domain, record_type)>> \o records
                                \o GeoLines(geo),
                  resolved |-> 1, geo |-> IF callGeo THEN 1 ELSE 0,
                  ip_geolocations |-> geo]

(***************************************************************************)
(* The retrying decorator of perform_dns_lookup_with_retry: a call that    *)
(* returns is final; a call that raises is repeated (after wait_fixed)     *)
(* unless it was attempt stop_max_attempt_number, whose exception is       *)
(* raised to the caller.                                                   *)
(***************************************************************************)
retry(attempt_number, raised) ==
    IF ~raised THEN "return"
    ELSE IF attempt_number >= stop_max_attempt_number THEN "raise"
    ELSE "retry"

(***************************************************************************)
(* perform_dns_lookup_with_retry as a function: the outcome of the whole   *)
(* retry loop for one pair, from attempt number attempt on, calls resolve  *)
(* invocations having been made before.                                    *)
(***************************************************************************)
RECURSIVE perform_dns_lookup_with_retry(_, _, _, _, _)
perform_dns_lookup_with_retry(domain, record_type, ipinfo_token, attempt, calls) ==
    LET r == perform_dns_lookup(domain, record_type, ipinfo_token, attempt, calls + 1)
        then == retry(attempt, r.raised)
    IN  CASE then = "return" -> [raised |-> FALSE, value |-> r.result]
          [] then = "raise" -> [raised |-> TRUE, value |-> r.exc]
          [] then = "retry" ->
                perform_dns_lookup_with_retry(domain, record_type, ipinfo_token,
                                              attempt + 1, calls + r.resolved)

(***************************************************************************)
(* main: what the loop over as_completed adds to results for one future.   *)
(***************************************************************************)
extend_prepend(list, result) == result \o list

extend(list, result) == list \o result

ExceptionLine(domain, record_type, exc) ==
    colored(<<record_type, " generated an exception: ">> \o exc, "red")

(***************************************************************************)
(* save_results, and the print loop of main when there is no --output.     *)
(* json.dump writes each line as a JSON string, in which the escape        *)
(* character is written \u001b, a character outside ASCII as its \u       *)
(* escape and a backslash as two; csv.writer writes one single-column row  *)
(* per line; the text format and the console get the line and a newline.   *)
(***************************************************************************)
JsonToken(tok) ==
    CASE tok = "ESC[34m" -> "\\u001b[34m"
      [] tok = "ESC[32m" -> "\\u001b[32m"
      [] tok = "ESC[33m" -> "\\u001b[33m"
      [] tok = "ESC[31m" -> "\\u001b[31m"
      [] tok = "ESC[0m" -> "\\u001b[0m"
      [] tok \in NonAscii -> NonAsciiChar[tok].json_name
      [] \E name \in NonAscii : tok = NonAsciiChar[name].char ->
            NonAsciiChar[CHOOSE name \in NonAscii : tok = NonAsciiChar[name].char].json_char
      [] OTHER -> tok

JsonEscapeCodes == {JsonToken(c) : c \in EscapeCodes}

JsonString(line) == <<"\"">> \o [k \in DOMAIN line |-> JsonToken(line[k])] \o <<"\"">>

save_results(lines, output_format) ==
    IF output_format = "json"
    THEN [k \in DOMAIN lines |-> JsonString(lines[k])]
    ELSE IF output_format = "csv"
    THEN [k \in DOMAIN lines |-> <<lines[k]>>]
    ELSE [k \in DOMAIN lines |-> lines[k] \o <<"\n">>]

(***************************************************************************)
(* print.  A call raises BrokenPipeError when the reader of stdout has     *)
(* gone, UnicodeEncodeError when the text has a character stdout cannot    *)
(* encode; a call that raises writes nothing.                              *)
(***************************************************************************)
print_raises(lines) ==
    \/ world.stdout = "closed"
    \/ /\ world.stdout = "ascii"
       /\ \E k \in DOMAIN lines : \E m \in DOMAIN lines[k] : lines[k][m] \in NonAscii

\* "\n".join(result), as the sequence of its tokens.
RECURSIVE join(_)
join(lines) ==
    IF lines = <<>> THEN <<>>
    ELSE IF Len(lines) = 1 THEN lines[1]
    ELSE lines[1] \o <<"\n">> \o join(Tail(lines))

\* The number of characters of a token; an escape sequence is written here
\* with three letters for its first character.
CharLen(tok) ==
    IF tok \in EscapeCodes THEN Len(tok) - 2
    ELSE IF tok \in NonAscii THEN NonAsciiChar[tok].len
    ELSE Len(tok)

\* The index in the text of the first character ascii cannot encode.
RECURSIVE EncodeErrorStart(_)
EncodeErrorStart(text) ==
    IF Head(text) \in NonAscii THEN NonAsciiChar[Head(text)].index
    ELSE CharLen(Head(text)) + EncodeErrorStart(Tail(text))

EncodeErrorChar(text) ==
    LET k == CHOOSE k \in DOMAIN text :
                /\ text[k] \in NonAscii
                /\ \A m \in 1..(k - 1) : text[m] \notin NonAscii
    IN  NonAsciiChar[text[k]].char

\* str(exc) of the exception print(lines joined) raises.
print_exc(lines) ==
    IF world.stdout = "closed"
    THEN <<"[Errno 32] Broken pipe">>
    ELSE <<"'ascii' codec can't encode character '", EncodeErrorChar(join(lines)),
           "' in position ", ToString(EncodeErrorStart(join(lines))),
           ": ordinal not in range(128)">>

\* The prints of `for line in results: print(line)` up to the first that raises.
Printable(lines) ==
    LET bad == {k \in DOMAIN lines : print_raises(<<lines[k]>>)}
    IN  IF bad = {} THEN Len(lines)
        ELSE (CHOOSE k \in bad : \A m \in bad : k <= m) - 1

print_results(lines) == [k \in 1..Printable(lines) |-> lines[k] \o <<"\n">>]

print_joined(result) ==
    IF result = <<>> THEN <<<<"\n">>>> ELSE [k \in DOMAIN result |-> result[k] \o <<"\n">>]

(***************************************************************************)
(* Initial states.                                                         *)
(***************************************************************************)
Behaviours ==
    {b \in [setup : 0..stop_max_attempt_number, always : BOOLEAN,
            failFirst : 0..MaxFailFirst, kind : ExceptionKinds,
            answers : SeqsUpTo(Rdatas, MaxRecords)] :
        /\ b.always => (b.failFirst = 0 /\ b.answers = <<>>)
        /\ (~b.always /\ b.failFirst = 0) => b.kind = "Exception"}

BatchBehaviours ==
    {b \in Behaviours :
        \/ /\ b.setup = 0 /\ ~b.always /\ b.failFirst = 0
           /\ b.answers = <<"93.184.216.34", "93.184.216.35">>
        \/ b.setup = 0 /\ b.always /\ b.kind = "NXDOMAIN"
        \/ /\ b.setup = stop_max_attempt_number /\ ~b.always /\ b.failFirst = 0
           /\ b.answers = <<>>
    }

Start(ds, ts, threads, behaviours, geoFails, stdouts) ==
    /\ domains = ds
    /\ record_types = ts
    /\ args \in [threads : threads, ipinfo_token : Tokens, verbose : BOOLEAN]
    /\ world \in [resolver : [{<<ds[a], ts[b]>> : a \in DOMAIN ds, b \in DOMAIN ts}
                                 -> behaviours],
                  geoFail : geoFails,
                  colour : BOOLEAN,
                  stdout : stdouts]
    /\ mainpc = "submit"
    /\ submitted = 0
    /\ work_queue = <<>>
    /\ future = [i \in 1..(Len(ds) * Len(ts)) |->
                    [state |-> "new", attempt_number |-> 0, raised |-> FALSE, value |-> <<>>]]
    /\ frame = [i \in 1..(Len(ds) * Len(ts)) |->
                    [pc |-> "none", result |-> <<>>, ips |-> <<>>, geo |-> <<>>]]
    /\ resolve_calls = [i \in 1..(Len(ds) * Len(ts)) |-> 0]
    /\ geo_calls = [i \in 1..(Len(ds) * Len(ts)) |-> 0]
    /\ ip_geolocations = [i \in 1..(Len(ds) * Len(ts)) |-> <<>>]
    /\ completed = <<>>
    /\ finished = {}
    /\ finished_futures = <<>>
    /\ contributions = <<>>
    /\ results = <<>>
    /\ console = <<>>
    /\ written = [saved |-> FALSE, format |-> "", content |-> <<>>]

(***************************************************************************)
(* A batch: the first nd domains and the first nt record types, whose      *)
(* pairs succeed with two records, do not exist, or have no usable         *)
(* resolver configuration; the geolocation service fails for one address.  *)
(***************************************************************************)
Init ==
    \E nd \in 1..MaxTasks, nt \in 1..MaxTasks :
        /\ nd * nt <= MaxTasks
        /\ Start(SubSeq(DomainNames, 1, nd), SubSeq(TypeNames, 1, nt),
                 1..MaxThreads, BatchBehaviours, {{"93.184.216.35"}}, Stdouts)

(***************************************************************************)
(* One lookup: a single pair of type A or MX, under every behaviour of the *)
(* resolver and of the geolocation service within the bounds.              *)
(***************************************************************************)
InitLookup ==
    \E t \in {"A", "MX"} :
        Start(<<DomainNames[1]>>, <<t>>, {1}, Behaviours, SUBSET Rdatas,
              {"utf-8", "closed"})

(***************************************************************************)
(* main, lines 138-139: one executor.submit per pair.                      *)
(***************************************************************************)
Submit ==
    /\ mainpc = "submit"
    /\ submitted < NumTasks
    /\ submitted' = submitted + 1
    /\ work_queue' = Append(work_queue, submitted + 1)
    /\ future' = [future EXCEPT ![submitted + 1].state = "pending"]
    /\ UNCHANGED <<domains, record_types, args, world, mainpc, frame, resolve_calls,
                   geo_calls, ip_geolocations, completed, finished,
                   finished_futures, contributions, results, console, written>>

(***************************************************************************)
(* ThreadPoolExecutor: a worker, of at most args.threads, takes the oldest *)
(* work item and starts perform_dns_lookup_with_retry.                     *)
(***************************************************************************)
Running == {i \in Tasks : future[i].state = "running"}

WorkerTake ==
    /\ work_queue # <<>>
    /\ Cardinality(Running) < args.threads
    /\ work_queue' = Tail(work_queue)
    /\ future' = [future EXCEPT ![Head(work_queue)] =
                    [@ EXCEPT !.state = "running", !.attempt_number = 1]]
    /\ frame' = [frame EXCEPT ![Head(work_queue)].pc = "call"]
    /\ UNCHANGED <<domains, record_types, args, world, mainpc, submitted,
                   resolve_calls, geo_calls, ip_geolocations, completed, finished,
                   finished_futures, contributions, results, console, written>>

(***************************************************************************)
(* perform_dns_lookup_with_retry, run by a worker for task i.  A step runs *)
(* the call up to the next point where the thread waits: the DNS request   *)
(* of resolver.resolve, a request of handler.getDetails, or the wait       *)
(* before the next attempt.  When the call returns or raises, the retrying *)
(* decorator decides; a future that finishes once as_completed has         *)
(* installed its waiter is added to the waiter's list.                     *)
(***************************************************************************)
NoFrame == [pc |-> "none", result |-> <<>>, ips |-> <<>>, geo |-> <<>>]

Finish(i, raised, value) ==
    /\ future' = [future EXCEPT ![i] =
                    [@ EXCEPT !.state = "finished", !.raised = raised, !.value = value]]
    /\ frame' = [frame EXCEPT ![i] = NoFrame]
    /\ completed' = Append(completed, i)
    /\ finished_futures' = IF mainpc = "collect"
                           THEN Append(finished_futures, i)
                           ELSE finished_futures

\* The call of task i returned value, or raised it: what the decorator does.
Decorator(i, raised, value) ==
    LET then == retry(future[i].attempt_number, raised)
    IN  CASE then = "retry" ->
                /\ future' = [future EXCEPT ![i].attempt_number = @ + 1]
                /\ frame' = [frame EXCEPT ![i] = [NoFrame EXCEPT !.pc = "call"]]
                /\ UNCHANGED <<completed, finished_futures>>
          [] then = "return" -> Finish(i, FALSE, value)
          [] then = "raise" -> Finish(i, TRUE, value)

\* Lines 22-32: the Resolver set-up, which may raise, and the invocation of
\* resolver.resolve, whose answer the thread then waits for.
CallResolve(i) ==
    /\ future[i].state = "running"
    /\ frame[i].pc = "call"
    /\ IF future[i].attempt_number <= world.resolver[PairOf(i)].setup
       THEN /\ Decorator(i, TRUE, SetupMessage)
            /\ UNCHANGED resolve_calls
       ELSE /\ resolve_calls' = [resolve_calls EXCEPT ![i] = @ + 1]
            /\ frame' = [frame EXCEPT ![i].pc = "resolve"]
            /\ UNCHANGED <<future, completed, finished_futures>>
    /\ UNCHANGED <<domains, record_types, args, world, mainpc, submitted,
                   work_queue, geo_calls, ip_geolocations, finished,
                   contributions, results, console, written>>

\* Lines 32-42 and 47-59: resolver.resolve raises, and the handler's line is
\* returned; or it answers, and the header and the records are appended,
\* after which the call returns or invokes get_ipinfo_data, whose first
\* request the thread then waits for.
ResolveReturns(i) ==
    /\ future[i].state = "running"
    /\ frame[i].pc = "resolve"
    /\ LET p == PairOf(i)
           b == world.resolver[p]
           result == <<HeaderLine(p[1], p[2])>> \o RecordLines(b.answers)
           ips == IF WantsGeolocation(p[2], args.ipinfo_token) THEN b.answers ELSE <<>>
       IN  IF ResolverRaises(p, resolve_calls[i])
           THEN /\ Decorator(i, FALSE, caught(b.kind, p[1], p[2]))
                /\ UNCHANGED geo_calls
           ELSE IF ips # <<>> /\ args.ipinfo_token # ""
           THEN /\ geo_calls' = [geo_calls EXCEPT ![i] = @ + 1]
                /\ frame' = [frame EXCEPT ![i] =
                                [pc |-> "getDetails", result |-> result,
                                 ips |-> ips, geo |-> <<>>]]
                /\ UNCHANGED <<future, completed, finished_futures>>
           ELSE /\ Decorator(i, FALSE, result)
                /\ UNCHANGED geo_calls
    /\ UNCHANGED <<domains, record_types, args, world, mainpc, submitted,
                   work_queue, resolve_calls, ip_geolocations, finished,
                   contributions, results, console, written>>

\* Lines 64-80 and 43-46: the request of handler.getDetails for the next
\* address returns or raises; after the last one get_ipinfo_data returns
\* and the call appends the geolocation lines and returns.
GetDetailsReturns(i) ==
    /\ future[i].state = "running"
    /\ frame[i].pc = "getDetails"
    /\ LET after == get_ipinfo_iteration(frame[i].ips, frame[i].geo)
       IN  IF after.ips # <<>>
           THEN /\ frame' = [frame EXCEPT ![i].ips = after.ips, ![i].geo = after.geo]
                /\ UNCHANGED <<future, completed, finished_futures, ip_geolocations>>
           ELSE /\ ip_geolocations' = [ip_geolocations EXCEPT ![i] = after.geo]
                /\ Decorator(i, FALSE, frame[i].result \o GeoLines(after.geo))
    /\ UNCHANGED <<domains, record_types, args, world, mainpc, submitted,
                   work_queue, resolve_calls, geo_calls, finished,
                   contributions, results, console, written>>

(***************************************************************************)
(* concurrent.futures.as_completed: the futures already finished when it   *)
(* is called are yielded first, in the iteration order of a set; the       *)
(* others in the order they are added to the waiter.                       *)
(***************************************************************************)
AsCompleted ==
    /\ mainpc = "submit"
    /\ submitted = NumTasks
    /\ mainpc' = "collect"
    /\ finished' = {i \in Tasks : future[i].state = "finished"}
    /\ UNCHANGED <<domains, record_types, args, world, submitted, work_queue,
                   future, frame, resolve_calls, geo_calls, ip_geolocations,
                   completed, finished_futures, contributions, results, console,
                   written>>

(***************************************************************************)
(* main, lines 140-148: the loop body for the next future as_completed     *)
(* yields.  The try encloses future.result(), results.extend(result) and   *)
(* the verbose print, so the handler appends its line for an exception of  *)
(* the task and also for one of the print, which is raised after the       *)
(* task's lines have been added.                                           *)
(***************************************************************************)
Yielded == [k \in DOMAIN contributions |-> contributions[k].task]

Unyielded == finished \ Range(Yielded)

\* What the body does with a task's outcome: the lines results is extended
\* with, the lines the handler appends, the lines print writes.
LoopBody(domain, record_type, raised, value) ==
    IF raised
    THEN [result |-> <<>>,
          error |-> <<ExceptionLine(domain, record_type, value)>>,
          printed |-> <<>>]
    ELSE IF args.verbose /\ print_raises(value)
    THEN [result |-> value,
          error |-> <<ExceptionLine(domain, record_type, print_exc(value))>>,
          printed |-> <<>>]
    ELSE [result |-> value,
          error |-> <<>>,
          printed |-> IF args.verbose THEN print_joined(value) ELSE <<>>]

Contribution(i) ==
    LET body == LoopBody(PairOf(i)[1], PairOf(i)[2], future[i].raised, future[i].value)
    IN  body.result \o body.error

Collect(i) ==
    /\ mainpc = "collect"
    /\ IF Unyielded # {}
       THEN i \in Unyielded
       ELSE finished_futures # <<>> /\ i = Head(finished_futures)
    /\ finished_futures' = IF Unyielded # {} THEN finished_futures
                           ELSE Tail(finished_futures)
    /\ LET body == LoopBody(PairOf(i)[1], PairOf(i)[2],
                            future[i].raised, future[i].value)
           extended == IF future[i].raised THEN results
                       ELSE extend(results, body.result)
       IN  /\ results' = IF body.error # <<>>
                         THEN Append(extended, body.error[1])
                         ELSE extended
           /\ contributions' = Append(contributions,
                                      [task |-> i, result |-> body.result,
                                       error |-> body.error])
           /\ console' = console \o body.printed
    /\ UNCHANGED <<domains, record_types, args, world, mainpc, submitted,
                   work_queue, future, frame, resolve_calls, geo_calls,
                   ip_geolocations, completed, finished, written>>

(***************************************************************************)
(* main, lines 150-154: save_results when --output is given, else one      *)
(* print per line; a print that raises there ends main with its exception. *)
(***************************************************************************)
Output(output, format) ==
    /\ mainpc = "collect"
    /\ Len(contributions) = NumTasks
    /\ mainpc' = IF ~output /\ Printable(results) < Len(results)
                 THEN "crashed" ELSE "done"
    /\ written' = IF output
                  THEN [saved |-> TRUE, format |-> format,
                        content |-> save_results(results, format)]
                  ELSE written
    /\ console' = IF output THEN console ELSE console \o print_results(results)
    /\ UNCHANGED <<domains, record_types, args, world, submitted, work_queue,
                   future, frame, resolve_calls, geo_calls, ip_geolocations,
                   completed, finished, finished_futures, contributions, results>>

Next ==
    \/ Submit
    \/ WorkerTake
    \/ \E i \in Tasks : CallResolve(i)
    \/ \E i \in Tasks : ResolveReturns(i)
    \/ \E i \in Tasks : GetDetailsReturns(i)
    \/ AsCompleted
    \/ \E i \in Tasks : Collect(i)
    \/ \E output \in BOOLEAN, format \in Formats : Output(output, format)

Spec == Init /\ [][Next]_vars

SpecLookup == InitLookup /\ [][Next]_vars

(***************************************************************************)
(* Notions the properties below are stated in.                             *)
(***************************************************************************)
Strip(line) == SelectSeq(line, LAMBDA tok : tok \notin EscapeCodes)

Done(i) == future[i].state = "finished"

\* main has left the loop over as_completed and produced its output.
BatchFinished == mainpc \in {"done", "crashed"}

\* The resolve call whose outcome task i returned was answered.
Succeeded(i) ==
    /\ Done(i)
    /\ ~future[i].raised
    /\ resolve_calls[i] >= 1
    /\ ~ResolverRaises(PairOf(i), resolve_calls[i])

Answers(i) == world.resolver[PairOf(i)].answers

IsHeader(line, i) == Strip(line) = <<PairOf(i)[2], " records for ", PairOf(i)[1], ":">>

HeaderAndRecords(lines, i) ==
    /\ Len(lines) >= Len(Answers(i)) + 1
    /\ IsHeader(lines[1], i)
    /\ \A k \in DOMAIN Answers(i) : lines[k + 1] = <<Answers(i)[k]>>

Position(seq, x) == CHOOSE k \in DOMAIN seq : seq[k] = x

Count(line, lines) == Cardinality({k \in DOMAIN lines : lines[k] = line})

SameLines(a, b) == \A line \in Range(a) \cup Range(b) : Count(line, a) = Count(line, b)

(***************************************************************************)
(* The sequential mode the parallel batch is compared with: the pairs one  *)
(* at a time in input order, each through the retry wrapper; a pair        *)
(* yields its lookup's result, or one error line for the exception that    *)
(* left the wrapper.                                                       *)
(***************************************************************************)
RECURSIVE SequentialResults(_)
SequentialResults(n) ==
    IF n = 0 THEN <<>>
    ELSE LET outcome == perform_dns_lookup_with_retry(PairOf(n)[1], PairOf(n)[2],
                                                      args.ipinfo_token, 1, 0)
         IN  SequentialResults(n - 1) \o
                (IF outcome.raised
                 THEN <<ExceptionLine(PairOf(n)[1], PairOf(n)[2], outcome.value)>>
                 ELSE outcome.value)

(***************************************************************************)
(* C1.  If the resolve call of a pair fails on its first two invocations   *)
(* and succeeds on the third, the task returns the success result (header  *)
(* line plus record lines) and resolve has been invoked exactly 3 times.   *)
(***************************************************************************)
C1_RetryUntilSuccess ==
    \A i \in Tasks :
        LET b == world.resolver[PairOf(i)]
        IN  (Done(i) /\ b.setup = 0 /\ ~b.always /\ b.failFirst = 2)
                => /\ resolve_calls[i] = 3
                   /\ ~future[i].raised
                   /\ HeaderAndRecords(future[i].value, i)

(***************************************************************************)
(* C2.  If the resolve call of a pair fails on every invocation, resolve   *)
(* is invoked exactly 3 times before the failure is surfaced as the pair's *)
(* outcome.                                                                *)
(***************************************************************************)
C2_RetryExhaustion ==
    \A i \in Tasks :
        LET b == world.resolver[PairOf(i)]
        IN  (Done(i) /\ b.setup = 0 /\ b.always) => resolve_calls[i] = 3

(***************************************************************************)
(* C3.  When the batch is finished, results is the concatenation of the    *)
(* contributions, and every dispatched pair has exactly one contribution,  *)
(* which is not empty: either the list its task returned, or one error     *)
(* line for the exception its task raised, never both.                     *)
(***************************************************************************)
C3_ExactlyOneOutcome ==
    BatchFinished =>
        /\ results = Flatten([k \in DOMAIN contributions |->
                                contributions[k].result \o contributions[k].error])
        /\ \A i \in Tasks :
            /\ Cardinality({k \in DOMAIN contributions : contributions[k].task = i}) = 1
            /\ \A k \in DOMAIN contributions :
                contributions[k].task = i =>
                    IF future[i].raised
                    THEN /\ contributions[k].result = <<>>
                         /\ Len(contributions[k].error) = 1
                    ELSE /\ contributions[k].result = future[i].value
                         /\ contributions[k].result # <<>>
                         /\ contributions[k].error = <<>>

(***************************************************************************)
(* C4.  The error line main adds for a task whose exception left the retry *)
(* wrapper names the domain and the record type of its pair, so the error  *)
(* lines of two such pairs with different domains differ.                  *)
(***************************************************************************)
C4_ErrorLineNamesPair ==
    \A k \in DOMAIN contributions :
        LET i == contributions[k].task
        IN  future[i].raised =>
                /\ contributions[k].result = <<>>
                /\ Len(contributions[k].error) = 1
                /\ PairOf(i)[1] \in Range(contributions[k].error[1])
                /\ PairOf(i)[2] \in Range(contributions[k].error[1])
                /\ \A m \in DOMAIN contributions :
                    (future[contributions[m].task].raised
                        /\ PairOf(contributions[m].task)[1] # PairOf(i)[1])
                    => contributions[m].error # contributions[k].error

(***************************************************************************)
(* C5.  get_ipinfo_data is invoked by a lookup only if the record type is  *)
(* A and a token is configured, and then at most once; a lookup of type A  *)
(* with a token whose resolve call returned at least one address has a     *)
(* geolocation block in its result.                                        *)
(***************************************************************************)
HasGeoBlock(lines) ==
    \E k \in DOMAIN lines : lines[k][1] = "IP Geolocation for "

C5_GeolocationGating ==
    \A i \in Tasks :
        /\ geo_calls[i] > 0 => (PairOf(i)[2] = "A" /\ args.ipinfo_token # "")
        /\ (Succeeded(i) /\ PairOf(i)[2] = "A" /\ args.ipinfo_token # ""
                /\ Answers(i) # <<>>)
            => (geo_calls[i] = 1 /\ HasGeoBlock(future[i].value))

C5_Witness ==
    \E i \in Tasks :
        /\ Succeeded(i)
        /\ geo_calls[i] = 1
        /\ HasGeoBlock(future[i].value)

C5_WitnessOtherType ==
    \E i \in Tasks :
        /\ Succeeded(i)
        /\ PairOf(i)[2] # "A" /\ args.ipinfo_token # "" /\ Answers(i) # <<>>
        /\ geo_calls[i] = 0

(***************************************************************************)
(* C6.  While get_ipinfo_data runs, its mapping has an entry for every     *)
(* address it has processed and the addresses after them are still to be   *)
(* processed, whichever of them failed; the mapping it returns has an      *)
(* entry for every address it was given.  An address whose query fails     *)
(* maps to an error placeholder only, every other address to its seven     *)
(* location fields; and the lookup that called it returns its header,      *)
(* records and geolocation block.                                          *)
(***************************************************************************)
C6_PerIpIsolation ==
    \A i \in Tasks :
        geo_calls[i] > 0 =>
            LET geo == IF Done(i) THEN ip_geolocations[i] ELSE frame[i].geo
                left == IF Done(i) THEN 0 ELSE Len(frame[i].ips)
                processed == SubSeq(Answers(i), 1, Len(Answers(i)) - left)
            IN  /\ left <= Len(Answers(i))
                /\ ~Done(i) =>
                    /\ frame[i].pc = "getDetails"
                    /\ left >= 1
                    /\ frame[i].ips = SubSeq(Answers(i), Len(Answers(i)) - left + 1,
                                             Len(Answers(i)))
                /\ DictKeys(geo) = Range(processed)
                /\ Len(geo) = Cardinality(Range(processed))
                /\ \A ip \in Range(processed) :
                    IF ip \in world.geoFail
                    THEN /\ Len(DictGet(geo, ip)) = 1
                         /\ DictGet(geo, ip)[1].key = "Error"
                    ELSE /\ [k \in DOMAIN DictGet(geo, ip) |-> DictGet(geo, ip)[k].key] = GeoKeys
                         /\ DictGet(geo, ip) = GeoDetails(ip)
                /\ Done(i) =>
                    /\ ~future[i].raised
                    /\ HeaderAndRecords(future[i].value, i)
                    /\ Len(future[i].value) = Len(Answers(i)) + 1 + Len(GeoLines(geo))

C6_Witness ==
    \E i \in Tasks :
        /\ Done(i)
        /\ geo_calls[i] = 1
        /\ Len(Answers(i)) = 2
        /\ Answers(i)[1] \in world.geoFail
        /\ Answers(i)[2] \notin world.geoFail
        /\ Len(ip_geolocations[i]) = 2

(***************************************************************************)
(* C7, as claimed.  The list returned for a pair whose resolve call        *)
(* returned N records has exactly N+1 lines: the header line and the N     *)
(* record lines in the resolver's order.                                   *)
(***************************************************************************)
C7_ResultLength ==
    \A i \in Tasks :
        Succeeded(i) =>
            /\ Len(future[i].value) = Len(Answers(i)) + 1
            /\ HeaderAndRecords(future[i].value, i)

(***************************************************************************)
(* C7, amended.  The list returned for a pair whose resolve call returned  *)
(* N records starts with the header line and the N record lines in the     *)
(* resolver's order; it has exactly N+1 lines if the lookup did not call   *)
(* get_ipinfo_data, and more (the geolocation block) if it did.            *)
(***************************************************************************)
C7_ResultLengthWithoutGeolocation ==
    \A i \in Tasks :
        Succeeded(i) =>
            /\ HeaderAndRecords(future[i].value, i)
            /\ geo_calls[i] = 0 => Len(future[i].value) = Len(Answers(i)) + 1
            /\ geo_calls[i] > 0 => Len(future[i].value) > Len(Answers(i)) + 1

C7_Witness ==
    \E i \in Tasks :
        /\ Succeeded(i)
        /\ geo_calls[i] = 0
        /\ Len(Answers(i)) = 2
        /\ Answers(i)[1] # Answers(i)[2]
        /\ Len(future[i].value) = 3

(***************************************************************************)
(* C8, as claimed.  When the batch is finished, results is the             *)
(* concatenation of the whole per-pair results (the list a task returned,  *)
(* or the error line for the exception it raised) in the order in which    *)
(* the tasks completed.                                                    *)
(***************************************************************************)
PairResult(i) ==
    IF future[i].raised
    THEN <<ExceptionLine(PairOf(i)[1], PairOf(i)[2], future[i].value)>>
    ELSE future[i].value

C8_CompletionOrder ==
    BatchFinished =>
        results = Flatten([k \in DOMAIN completed |-> PairResult(completed[k])])

(***************************************************************************)
(* C8, amended.  results holds the whole per-pair result of every task     *)
(* yielded so far as one block of consecutive lines, the blocks one after  *)
(* another in the order as_completed yielded the tasks, each task once:    *)
(* the tasks that had finished when as_completed was called come first,    *)
(* in any order, the others after them in the order in which they          *)
(* completed.  So each pair's lines form one block, in the order its task  *)
(* produced them, and no line of another pair's result lies inside it.     *)
(***************************************************************************)
\* The blocks of the tasks Yielded[k], Yielded[k+1], ... lie in results one
\* after another at or after offset from (each taken at its first place).
RECURSIVE BlocksInOrder(_, _)
BlocksInOrder(k, from) ==
    IF k > Len(Yielded) THEN TRUE
    ELSE LET block == PairResult(Yielded[k])
             starts == {o \in from..(Len(results) - Len(block)) :
                            SubSeq(results, o + 1, o + Len(block)) = block}
         IN  /\ starts # {}
             /\ BlocksInOrder(k + 1,
                              (CHOOSE o \in starts : \A q \in starts : o <= q)
                                  + Len(block))

C8_YieldOrder ==
    mainpc # "submit" =>
        /\ BlocksInOrder(1, 0)
        /\ Yielded # <<>> =>
                SubSeq(results, 1, Len(PairResult(Yielded[1]))) = PairResult(Yielded[1])
        /\ \A a, b \in DOMAIN Yielded :
            a < b =>
                /\ Yielded[a] # Yielded[b]
                /\ \/ Yielded[a] \in finished
                   \/ /\ Yielded[b] \notin finished
                      /\ Position(completed, Yielded[a]) < Position(completed, Yielded[b])

C8_Witness ==
    /\ BatchFinished
    /\ \E a, b \in DOMAIN Yielded :
        /\ a < b
        /\ Position(completed, Yielded[b]) < Position(completed, Yielded[a])
        /\ Len(contributions[a].result) > 1
        /\ Len(contributions[b].result) > 1

(***************************************************************************)
(* C9.  When the batch is finished, for every number of worker threads and *)
(* every interleaving, results holds the same lines, each as many times,   *)
(* as the sequential processing of the same pairs in input order.          *)
(***************************************************************************)
C9_ScheduleIndependence ==
    BatchFinished => SameLines(results, SequentialResults(NumTasks))

(***************************************************************************)
(* C10.  What save_results writes in the json or csv format holds no       *)
(* colour escape sequence, in plain or in JSON-escaped form.               *)
(***************************************************************************)
C10_StructuredOutputPlain ==
    (written.saved /\ written.format \in {"json", "csv"}) =>
        \A k \in DOMAIN written.content :
            IF written.format = "json"
            THEN \A m \in DOMAIN written.content[k] :
                    written.content[k][m] \notin EscapeCodes \cup JsonEscapeCodes
            ELSE \A col \in DOMAIN written.content[k] :
                    ~HasMarkup(written.content[k][col])
====
